---- MODULE Spec2Model ----
(***************************************************************************)
(* memfs (cmd/memfs/main.go): a volatile in-memory filesystem served over   *)
(* FUSE.  The state is the Go heap of Dir, File and Symlink nodes, the      *)
(* package variables lastInode and root, and whether the process still runs.*)
(* A handler is an operator from the state and the request to the new state *)
(* and the reply; every mutating handler runs between mutex.Lock() and the  *)
(* deferred mutex.Unlock(), so serving one request is one step.  The        *)
(* concurrent specification adds the callers: each invokes a handler, takes *)
(* the mutex as the handler does, runs its body and returns; the reply of a *)
(* Read is sent after the handler has returned.                             *)
(***************************************************************************)
EXTENDS Integers, Sequences, FiniteSets, TLC

\* ---------------------------------------------------------------- bounds
MaxNodes == 3      \* nodes ever allocated, the root included
MaxCap   == 2      \* largest backing array of a File's content
MaxData  == 2      \* longest req.Data of one Write
MaxTime  == 1      \* time.Now() yields a value in 0..MaxTime
MaxValid == 2      \* most bits set in req.Valid of one Setattr
MaxProcs == 2      \* requests the adapter has in flight at once

\* ---------------------------------------------------------------- values
NIL    == 0                          \* the nil Node / nil pointer
Names  == {"a", "b"}                 \* entry names a request may carry
Byte   == {0, 1}                     \* 0 is the NUL byte
Times  == 0 .. MaxTime
ReqModes == {{"r", "w"}}             \* req.Mode of Mkdir and Create
\* req.Mode of Setattr: the permission bits with the type bits of the node
DirSetModes  == {{"ModeDir", "r", "w"}}
FileSetModes == {{"r", "w"}}
Targets == {"t"}                     \* req.Target of a Symlink request

OK      == "nil"                     \* a handler's nil error
EEXIST  == "EEXIST"                  \* fuse.EEXIST
ENOENT  == "ENOENT"                  \* fuse.ENOENT
\* A run-time panic inside a handler: the deferred unlock runs and the state
\* is what the handler had written before it.
PANIC   == "panic"
FATAL   == "fatal"                   \* log.Fatal: the process exits

VARIABLES
    heap,        \* heap[p]: the node at pointer p, in order of allocation
    lastInode,   \* var lastInode fuse.NodeID
    alive,       \* FALSE once log.Fatal has ended the process
    mutex,       \* var mutex sync.RWMutex: its writer and its readers
    pc,          \* pc[c]: where the goroutine of caller c stands
    call,        \* call[c]: the request caller c has invoked
    resp         \* resp[c]: the ReadResponse caller c has still to send

vars  == <<heap, lastInode, alive, mutex, pc, call, resp>>
calls == <<mutex, pc, call, resp>>

Procs == 1 .. MaxProcs

root == 1        \* var root = newDir(0777): the first node allocated

PtrsOf(h)   == 1 .. Len(h)
Ptrs        == PtrsOf(heap)
IsDir(h, p)     == p \in PtrsOf(h) /\ h[p].kind = "Dir"
IsFile(h, p)    == p \in PtrsOf(h) /\ h[p].kind = "File"
IsSymlink(h, p) == p \in PtrsOf(h) /\ h[p].kind = "Symlink"
Dirs     == {p \in Ptrs : IsDir(heap, p)}
Files    == {p \in Ptrs : IsFile(heap, p)}
Symlinks == {p \in Ptrs : IsSymlink(heap, p)}

\* ---------------------------------------------------------------- Go maps
EmptyMap == [x \in {} |-> NIL]
MapSet(m, k, v) == [x \in (DOMAIN m) \cup {k} |-> IF x = k THEN v ELSE m[x]]
MapDelete(m, k) == [x \in (DOMAIN m) \ {k} |-> m[x]]
\* m[k] of a Go map: the zero value (nil) for a missing key
MapGet(m, k)    == IF k \in DOMAIN m THEN m[k] ELSE NIL

\* ---------------------------------------------------------------- Go slices
\* A []byte that starts at the beginning of its backing array: buf is the
\* whole array (Len(buf) is the capacity), len the slice's length.
NilSlice   == [buf |-> <<>>, len |-> 0]
Cap(s)     == Len(s.buf)
Zeros(n)   == [i \in 1 .. n |-> 0]
Bytes(s)   == SubSeq(s.buf, 1, s.len)
SliceTo(s, n) == [buf |-> s.buf, len |-> n]        \* s[:n], n <= cap(s)

\* The capacities append(s, xs...) may end with: the old one when it
\* suffices, otherwise whatever the run time picks that is enough.
GrowCaps(s, xs) ==
    IF s.len + Len(xs) <= Cap(s) THEN {Cap(s)} ELSE (s.len + Len(xs)) .. MaxCap

appendNoCopy(s, xs, c) ==
    [buf |-> IF s.len + Len(xs) <= Cap(s) THEN s.buf ELSE s.buf \o Zeros(c - Cap(s)),
     len |-> s.len + Len(xs)]

\* append(s, xs...): in place when the capacity suffices; otherwise into a
\* fresh zeroed array of capacity c.
append(s, xs, c) ==
    LET n == s.len + Len(xs) IN
    IF n <= Cap(s)
    THEN [buf |-> [i \in 1 .. Cap(s) |->
                      IF i > s.len /\ i <= n THEN xs[i - s.len] ELSE s.buf[i]],
          len |-> n]
    ELSE [buf |-> Bytes(s) \o xs \o Zeros(c - n), len |-> n]

\* ---------------------------------------------------------------- nodes
newNodeNoIncrement(last, mode, now) ==
    [last |-> last,
     attr |-> [Inode |-> last, Mode |-> mode, Mtime |-> now]]

\* newNode: lastInode++ and the attr of the new node.  Ctime, written here
\* and by nothing else, is left out.
newNode(last, mode, now) ==
    [last |-> last + 1,
     attr |-> [Inode |-> last + 1, Mode |-> mode, Mtime |-> now]]

newDir(last, mode, now) ==
    LET n == newNode(last, {"ModeDir"} \cup mode, now) IN
    [last |-> n.last,
     node |-> [kind |-> "Dir", attr |-> n.attr, children |-> EmptyMap]]

newFile(last, mode, now) ==
    LET n == newNode(last, mode, now) IN
    [last |-> n.last,
     node |-> [kind |-> "File", attr |-> n.attr, content |-> NilSlice]]

newSymlink(last, target, now) ==
    LET n == newNode(last, {"ModeSymlink", "r"}, now) IN
    [last |-> n.last,
     node |-> [kind |-> "Symlink", attr |-> n.attr, target |-> target]]

\* The zero value of sync.RWMutex: no writer (0), no readers.
Unlocked == [w |-> 0, r |-> {}]

\* A request: the handler, the node it is invoked on and its arguments.
NoCall == [op |-> "none", node |-> NIL, name |-> "", off |-> 0, size |-> 0,
           data |-> <<>>, valid |-> {}]

\* resp.Data of a Read that has returned is a slice of the File's array, not
\* a copy: bytes [off, off+size) of the array content of f had when Read ran.
\* live: f.content still has that array; otherwise buf is the array, which
\* nothing writes any more.  snap: the bytes at the time Read ran.
NoData == [f |-> NIL, off |-> 0, size |-> 0, live |-> FALSE, buf |-> <<>>,
           snap |-> <<>>]

Init ==
    /\ heap = << newDir(0, {"r", "w", "x"}, 0).node >>
    /\ lastInode = newDir(0, {"r", "w", "x"}, 0).last
    /\ alive = TRUE
    /\ mutex = Unlocked
    /\ pc = [c \in Procs |-> "idle"]
    /\ call = [c \in Procs |-> NoCall]
    /\ resp = [c \in Procs |-> NoData]

\* A reply that leaves the state as it is.
Same(h, last) == [heap |-> h, last |-> last, alive |-> TRUE]

\* ---------------------------------------------------------------- Dir
\* d.children[name] = child; d.Mtime = now
Insert(h, d, name, child, now) ==
    [h EXCEPT ![d].children = MapSet(@, name, child), ![d].attr.Mtime = now]

\* delete(d.children, name); d.Mtime = now
Unlink(h, d, name, now) ==
    [h EXCEPT ![d].children = MapDelete(@, name), ![d].attr.Mtime = now]

DirMkdir(h, last, d, name, mode, t1, t2) ==
    IF name \in DOMAIN h[d].children
    THEN Same(h, last) @@ [node |-> NIL, err |-> EEXIST]
    ELSE LET new == newDir(last, mode, t1) IN
         [heap |-> Insert(Append(h, new.node), d, name, Len(h) + 1, t2),
          last |-> new.last, alive |-> TRUE, node |-> Len(h) + 1, err |-> OK]

\* A Create that returns the new File without storing it under the name.
DirCreateNoInsert(h, last, d, name, mode, t1, t2) ==
    LET new == newFile(last, mode, t1) IN
    [heap |-> [Append(h, new.node) EXCEPT ![d].attr.Mtime = t2],
     last |-> new.last, alive |-> TRUE, node |-> Len(h) + 1, err |-> OK]

DirCreate(h, last, d, name, mode, t1, t2) ==
    LET new == newFile(last, mode, t1) IN
    [heap |-> Insert(Append(h, new.node), d, name, Len(h) + 1, t2),
     last |-> new.last, alive |-> TRUE, node |-> Len(h) + 1, err |-> OK]

DirSymlink(h, last, d, name, target, t1, t2) ==
    LET new == newSymlink(last, target, t1) IN
    [heap |-> Insert(Append(h, new.node), d, name, Len(h) + 1, t2),
     last |-> new.last, alive |-> TRUE, node |-> Len(h) + 1, err |-> OK]

\* A Link that stores a copy of the File instead of the node itself.
DirLinkCopy(h, last, d, newName, old, t) ==
    IF IsFile(h, old)
    THEN [heap |-> Insert(Append(h, h[old]), d, newName, Len(h) + 1, t),
          last |-> last, alive |-> TRUE, node |-> old, err |-> OK]
    ELSE Same(h, last) @@ [node |-> old, err |-> OK]

\* A Link that inserts its target whatever its type.
DirLinkAny(h, last, d, newName, old, t) ==
    [heap |-> Insert(h, d, newName, old, t),
     last |-> last, alive |-> TRUE, node |-> old, err |-> OK]

\* Link returns its old argument with a nil error whatever its type; only a
\* *File is inserted.
DirLink(h, last, d, newName, old, t) ==
    [heap |-> IF IsFile(h, old) THEN Insert(h, d, newName, old, t) ELSE h,
     last |-> last, alive |-> TRUE, node |-> old, err |-> OK]

\* A Remove that also discards the content of the File it unlinks.
DirRemoveDiscard(h, last, d, name, t) ==
    LET child == MapGet(h[d].children, name) IN
    IF IsDir(h, child) /\ DOMAIN h[child].children # {}
    THEN Same(h, last) @@ [err |-> EEXIST]
    ELSE [heap |-> IF IsFile(h, child)
                   THEN [Unlink(h, d, name, t) EXCEPT ![child].content = NilSlice]
                   ELSE Unlink(h, d, name, t),
          last |-> last, alive |-> TRUE, err |-> OK]

DirRemove(h, last, d, name, t) ==
    LET child == MapGet(h[d].children, name) IN
    IF IsDir(h, child) /\ DOMAIN h[child].children # {}
    THEN Same(h, last) @@ [err |-> EEXIST]
    ELSE [heap |-> Unlink(h, d, name, t), last |-> last, alive |-> TRUE,
          err |-> OK]

\* A Rename that leaves the old entry in place.
DirRenameCopy(h, last, d, oldName, newDirP, newName, t1, t2) ==
    IF IsDir(h, newDirP)
    THEN [heap |-> Insert(h, newDirP, newName, MapGet(h[d].children, oldName), t2),
          last |-> last, alive |-> TRUE, err |-> OK]
    ELSE Same(h, last) @@ [err |-> ENOENT]

\* A Rename that refuses a NewName already present in the destination.
DirRenameNoOverwrite(h, last, d, oldName, newDirP, newName, t1, t2) ==
    IF IsDir(h, newDirP)
    THEN IF newName \in DOMAIN h[newDirP].children
         THEN Same(h, last) @@ [err |-> EEXIST]
         ELSE LET target == MapGet(h[d].children, oldName) IN
              [heap |-> Insert(Unlink(h, d, oldName, t1), newDirP, newName, target, t2),
               last |-> last, alive |-> TRUE, err |-> OK]
    ELSE Same(h, last) @@ [err |-> ENOENT]

\* newDirP is the request's newDir node, of any type.
DirRename(h, last, d, oldName, newDirP, newName, t1, t2) ==
    IF IsDir(h, newDirP)
    THEN LET target == MapGet(h[d].children, oldName) IN
         [heap |-> Insert(Unlink(h, d, oldName, t1), newDirP, newName, target, t2),
          last |-> last, alive |-> TRUE, err |-> OK]
    ELSE Same(h, last) @@ [err |-> ENOENT]

\* fuse.SetattrValid bits
SetattrBits == {"Size", "Mode", "Mtime", "Atime", "Uid", "Crtime"}
\* req.Valid of a request: at most MaxValid of these bits
ReqValid    == {v \in SUBSET SetattrBits : Cardinality(v) <= MaxValid}
DirHandled  == {"Mode", "Mtime"}
DirIgnored  == {"Atime", "Handle"}
FileHandled == {"Size", "Mode", "Mtime"}
FileIgnored == {"Atime", "Handle", "Uid", "Gid", "Flags"}

\* log.Fatal: the process exits inside the handler; no reply is sent.
Fatal(h, last) == [heap |-> h, last |-> last, alive |-> FALSE, err |-> FATAL]

DirSetattr(h, last, d, valid, mode, mtime) ==
    IF valid \ (DirHandled \cup DirIgnored) # {}
    THEN Fatal(h, last)
    ELSE [heap |-> [h EXCEPT
                      ![d].attr.Mode  = IF "Mode" \in valid THEN mode ELSE @,
                      ![d].attr.Mtime = IF "Mtime" \in valid THEN mtime ELSE @],
          last |-> last, alive |-> TRUE, err |-> OK]

\* *a = fuse.Attr(n.attr): the stored attr, whose Size field is never set
FuseAttr(attr, size) ==
    [Inode |-> attr.Inode, Mode |-> attr.Mode, Mtime |-> attr.Mtime,
     Size |-> size]

DirAttr(h, last, d) == Same(h, last) @@ [a |-> FuseAttr(h[d].attr, 0), err |-> OK]

DirLookup(h, last, d, name) ==
    IF name \in DOMAIN h[d].children
    THEN Same(h, last) @@ [node |-> h[d].children[name], err |-> OK]
    ELSE Same(h, last) @@ [node |-> NIL, err |-> ENOENT]

\* child.dirent(name)
DirentType(kind) ==
    CASE kind = "Dir" -> "DT_Dir" [] kind = "File" -> "DT_File"
      [] kind = "Symlink" -> "DT_Link"

dirent(h, child, name) ==
    [Inode |-> h[child].attr.Inode, Type |-> DirentType(h[child].kind),
     Name |-> name]

\* ReadDirAll: the entries in no particular order (a set); child.dirent on a
\* nil child panics.
DirReadDirAll(h, last, d) ==
    LET ch == h[d].children IN
    IF \E x \in DOMAIN ch : ch[x] = NIL
    THEN Same(h, last) @@ [dir |-> {}, err |-> PANIC]
    ELSE Same(h, last) @@ [dir |-> {dirent(h, ch[x], x) : x \in DOMAIN ch},
                           err |-> OK]

\* ---------------------------------------------------------------- File
FileAttr(h, last, f) ==
    Same(h, last) @@ [a |-> FuseAttr(h[f].attr, h[f].content.len), err |-> OK]

\* resp.Data = f.content[req.Offset:][:req.Size].  The first slice panics when
\* the offset is past the length, the second when the size is past what is
\* left of the capacity; bytes between length and capacity are handed out.
FileRead(h, last, f, off, size) ==
    LET s == h[f].content IN
    IF off > s.len \/ size > Cap(s) - off
    THEN Same(h, last) @@ [data |-> <<>>, err |-> PANIC]
    ELSE Same(h, last) @@ [data |-> SubSeq(s.buf, off + 1, off + size),
                           err |-> OK]

\* The content after Write(off, data) on content s0; c1 and c2 are the
\* capacities the two growing appends end with.
writeDropAfter(s0, off, data, c1, c2) ==
    LET padLen == off - s0.len
        s1     == IF padLen > 0 THEN append(s0, Zeros(padLen), c1) ELSE s0
    IN  append(SliceTo(s1, off), data, c2)

write(s0, off, data, c1, c2) ==
    LET padLen     == off - s0.len
        s1         == IF padLen > 0 THEN append(s0, Zeros(padLen), c1) ELSE s0
        contentLen == IF padLen > 0 THEN off ELSE s0.len
        afterPos   == off + Len(data)
        s2         == append(SliceTo(s1, off), data, c2)
        \* after = f.content[afterPos:] shares the array of s1, which the
        \* append above has written in place unless it had to grow
        arr        == IF afterPos <= Cap(s1) THEN s2.buf ELSE s1.buf
        after      == SubSeq(arr, afterPos + 1, contentLen)
    IN  IF afterPos < contentLen THEN append(s2, after, Cap(s2)) ELSE s2

\* The capacities <<c1, c2>> the appends of Write(off, data) may end with.
WriteCaps(s0, off, data) ==
    LET padLen == off - s0.len IN
    {c \in (0 .. MaxCap) \X (0 .. MaxCap) :
        /\ c[1] \in (IF padLen > 0 THEN GrowCaps(s0, Zeros(padLen)) ELSE {Cap(s0)})
        /\ LET s1 == IF padLen > 0 THEN append(s0, Zeros(padLen), c[1]) ELSE s0
           IN  c[2] \in GrowCaps(SliceTo(s1, off), data)}

FileWrite(h, last, f, off, data, c1, c2, t) ==
    [heap |-> [h EXCEPT ![f].content = write(@, off, data, c1, c2),
                        ![f].attr.Mtime = t],
     last |-> last, alive |-> TRUE, size |-> Len(data), err |-> OK]

\* The content after Setattr with Valid.Size() and req.Size = size.
resizeNoPad(s, size, c) ==
    IF size < s.len THEN SliceTo(s, size) ELSE appendNoCopy(s, Zeros(size - s.len), c)

resize(s, size, c) ==
    LET delta == size - s.len IN
    IF delta < 0 THEN SliceTo(s, size)
    ELSE IF delta > 0 THEN append(s, Zeros(delta), c)
    ELSE s

FileSetattr(h, last, f, valid, size, mode, mtime, c) ==
    IF valid \ (FileHandled \cup FileIgnored) # {}
    THEN Fatal(h, last)
    ELSE [heap |-> [h EXCEPT
                      ![f].content = IF "Size" \in valid THEN resize(@, size, c) ELSE @,
                      ![f].attr.Mode  = IF "Mode" \in valid THEN mode ELSE @,
                      ![f].attr.Mtime = IF "Mtime" \in valid THEN mtime ELSE @],
          last |-> last, alive |-> TRUE, err |-> OK]

\* ---------------------------------------------------------------- Symlink
SymlinkAttr(h, last, l) ==
    Same(h, last) @@ [a |-> FuseAttr(h[l].attr, 0), err |-> OK]

SymlinkReadlink(h, last, l) ==
    Same(h, last) @@ [target |-> h[l].target, err |-> OK]

\* ---------------------------------------------------------------- requests
\* Serving a request: the state becomes what the handler left.
Serve(r) ==
    /\ alive
    /\ heap' = r.heap
    /\ lastInode' = r.last
    /\ alive' = r.alive
    /\ UNCHANGED calls

CanAlloc == Len(heap) < MaxNodes

Mkdir(T) ==
    \E d \in Dirs, name \in Names, mode \in ReqModes, t1 \in T, t2 \in T :
        /\ name \in DOMAIN heap[d].children \/ CanAlloc
        /\ Serve(DirMkdir(heap, lastInode, d, name, mode, t1, t2))

Create(T) ==
    \E d \in Dirs, name \in Names, mode \in ReqModes, t1 \in T, t2 \in T :
        /\ CanAlloc
        /\ Serve(DirCreate(heap, lastInode, d, name, mode, t1, t2))

Symlink(T) ==
    \E d \in Dirs, name \in Names, target \in Targets, t1 \in T, t2 \in T :
        /\ CanAlloc
        /\ Serve(DirSymlink(heap, lastInode, d, name, target, t1, t2))

Link(T) ==
    \E d \in Dirs, name \in Names, old \in Ptrs, t \in T :
        Serve(DirLink(heap, lastInode, d, name, old, t))

Remove(T) ==
    \E d \in Dirs, name \in Names, t \in T :
        Serve(DirRemove(heap, lastInode, d, name, t))

Rename(T) ==
    \E d \in Dirs, oldName \in Names, newDirP \in Ptrs, newName \in Names,
       t1 \in T, t2 \in T :
        Serve(DirRename(heap, lastInode, d, oldName, newDirP, newName, t1, t2))

\* The fields of a Setattr request that req.Valid does not flag are zero.
SetattrDir(T) ==
    \E d \in Dirs, valid \in ReqValid, mode \in DirSetModes :
        \E mtime \in (IF "Mtime" \in valid THEN T ELSE {0}) :
            Serve(DirSetattr(heap, lastInode, d, valid, mode, mtime))

AttrDir == \E d \in Dirs : Serve(DirAttr(heap, lastInode, d))

Lookup == \E d \in Dirs, name \in Names : Serve(DirLookup(heap, lastInode, d, name))

ReadDirAll == \E d \in Dirs : Serve(DirReadDirAll(heap, lastInode, d))

AttrFile == \E f \in Files : Serve(FileAttr(heap, lastInode, f))

Offsets == 0 .. MaxCap + 1
Datas   == UNION {[1 .. n -> Byte] : n \in 0 .. MaxData}

Read ==
    \E f \in Files, off \in Offsets, size \in Offsets :
        Serve(FileRead(heap, lastInode, f, off, size))

Write(T) ==
    \E f \in Files, off \in Offsets, data \in Datas, t \in T :
        /\ off + Len(data) <= MaxCap
        /\ \E c \in WriteCaps(heap[f].content, off, data) :
              Serve(FileWrite(heap, lastInode, f, off, data, c[1], c[2], t))

SetattrFile(T) ==
    \E f \in Files, valid \in ReqValid, mode \in FileSetModes :
        \E size \in (IF "Size" \in valid THEN 0 .. MaxCap ELSE {0}),
           mtime \in (IF "Mtime" \in valid THEN T ELSE {0}) :
            \E c \in GrowCaps(heap[f].content, Zeros(size - heap[f].content.len)) :
                Serve(FileSetattr(heap, lastInode, f, valid, size, mode, mtime, c))

AttrSymlink == \E l \in Symlinks : Serve(SymlinkAttr(heap, lastInode, l))

Readlink == \E l \in Symlinks : Serve(SymlinkReadlink(heap, lastInode, l))

\* The handlers of *Dir, with time.Now() and req.Mtime drawn from T.
NextDir(T) ==
    \/ Mkdir(T) \/ Create(T) \/ Symlink(T) \/ Link(T) \/ Remove(T) \/ Rename(T)
    \/ SetattrDir(T) \/ AttrDir \/ Lookup \/ ReadDirAll

NextFile(T) == AttrFile \/ Read \/ Write(T) \/ SetattrFile(T)

NextSymlink == AttrSymlink \/ Readlink

\* Every handler, the clock standing still: modification times are written
\* but always with the same value.
Next == NextDir({0}) \/ NextFile({0}) \/ NextSymlink

Spec == Init /\ [][Next]_vars

\* The directory tree alone, with a clock that moves: file contents stay
\* empty, which no handler of *Dir reads.
NextTree == NextDir(Times)

SpecTree == Init /\ [][NextTree]_vars

\* The calls that make, move and drop directory entries, the clock standing
\* still.
NextEntries ==
    \/ Mkdir({0}) \/ Create({0}) \/ Symlink({0})
    \/ Link({0}) \/ Remove({0}) \/ Rename({0})

SpecEntries == Init /\ [][NextEntries]_vars

\* The calls that make Directories and Files, look entries up, and drop or
\* move them, the clock standing still.
NextLookup ==
    Mkdir({0}) \/ Create({0}) \/ Remove({0}) \/ Rename({0}) \/ Lookup

SpecLookup == Init /\ [][NextLookup]_vars

\* One File in the root and the handlers of *File on it: they read and write
\* nothing but the node of that File.
CreateFirst == Files = {} /\ Create(Times)

NextOneFile == CreateFirst \/ NextFile(Times)

SpecFile == Init /\ [][NextOneFile]_vars

\* ---------------------------------------------------------------- callers
\* The adapter serves each request on a goroutine of its own: a caller
\* invokes a handler; the handler takes the mutex the way its first
\* statement says, runs, and releases it on return (defer); the adapter
\* then sends the reply, resp.Data included.
Readers   == {"Attr", "Lookup", "ReadDirAll", "Read"}          \* mutex.RLock()
Writers   == {"Mkdir", "Create", "Link", "Symlink", "Remove", "Rename",
              "Setattr", "Write"}                              \* mutex.Lock()
Lockless  == {"Readlink"}                                      \* no lock taken
Allocates == {"Mkdir", "Create", "Symlink"}                    \* call newNode

Req(op, node, name, off, size, data, valid) ==
    [op |-> op, node |-> node, name |-> name, off |-> off, size |-> size,
     data |-> data, valid |-> valid]

\* The requests callers make in the concurrent specification, on the root and
\* on the nodes made in it: one File under a, one Symlink or Directory
\* under b.
ConcCalls ==
    UNION {
      IF Files = {} THEN {Req("Create", root, "a", 0, 0, <<>>, {})} ELSE {},
      {Req(op, root, "b", 0, 0, <<>>, {}) :
          op \in IF Symlinks \cup (Dirs \ {root}) = {} THEN {"Symlink", "Mkdir"}
                 ELSE {}},
      {Req(op, root, "a", 0, 0, <<>>, {}) : op \in {"Lookup", "Remove"}},
      {Req(op, root, "", 0, 0, <<>>, {}) : op \in {"ReadDirAll", "Attr"}},
      {Req("Setattr", root, "", 0, 0, <<>>, v) : v \in {{"Mtime"}, {"Uid"}}},
      \* Link(NewName = a, old = f) and Rename(a -> a) on the root
      {Req("Link", root, "a", f, 0, <<>>, {}) : f \in Files},
      {Req("Rename", root, "a", root, 0, <<>>, {})},
      {Req("Read", f, "", 0, 1, <<>>, {}) : f \in Files},
      {Req("Write", f, "", 0, 0, <<b>>, {}) : f \in Files, b \in Byte},
      {Req("Setattr", f, "", 0, 0, <<>>, {"Size"}) : f \in Files},
      {Req("Readlink", l, "", 0, 0, <<>>, {}) : l \in Symlinks} }

\* What Write(off, data) leaves of the array content s0 had: kept, when
\* the content still has it; otherwise buf, the array as it was abandoned
\* (an append that grows copies and leaves its argument's array alone).
writeLeaves(s0, off, data, c1) ==
    LET padLen == off - s0.len
        s1     == IF padLen > 0 THEN append(s0, Zeros(padLen), c1) ELSE s0
    IN  IF padLen > 0 /\ off > Cap(s0) THEN [kept |-> FALSE, buf |-> s0.buf]
        ELSE IF off + Len(data) > Cap(s1) THEN [kept |-> FALSE, buf |-> s1.buf]
        ELSE [kept |-> TRUE, buf |-> <<>>]

resizeLeaves(s, size) ==
    IF size > Cap(s) THEN [kept |-> FALSE, buf |-> s.buf]
    ELSE [kept |-> TRUE, buf |-> <<>>]

\* What a handler leaves: the state, the error, the bytes of resp.Data, and
\* the File whose content it wrote with what that left of the array.
Out(r, data, f, arr) ==
    [heap |-> r.heap, last |-> r.last, alive |-> r.alive, err |-> r.err,
     data |-> data, f |-> f, arr |-> arr]

Plain(r) == Out(r, <<>>, NIL, [kept |-> TRUE, buf |-> <<>>])

\* The outcomes of serving request q in this state (the clock stands still).
Outcomes(q) ==
    LET h == heap  l == lastInode  n == q.node IN
    CASE q.op = "Mkdir"   -> {Plain(DirMkdir(h, l, n, q.name, {"r", "w"}, 0, 0))}
      [] q.op = "Create"  -> {Plain(DirCreate(h, l, n, q.name, {"r", "w"}, 0, 0))}
      [] q.op = "Symlink" -> {Plain(DirSymlink(h, l, n, q.name, "t", 0, 0))}
      [] q.op = "Link"    -> {Plain(DirLink(h, l, n, q.name, q.off, 0))}
      [] q.op = "Remove"  -> {Plain(DirRemove(h, l, n, q.name, 0))}
      [] q.op = "Rename"  -> {Plain(DirRename(h, l, n, q.name, q.off, q.name, 0, 0))}
      [] q.op = "Lookup"  -> {Plain(DirLookup(h, l, n, q.name))}
      [] q.op = "ReadDirAll" -> {Plain(DirReadDirAll(h, l, n))}
      [] q.op = "Readlink"   -> {Plain(SymlinkReadlink(h, l, n))}
      [] q.op = "Attr"    -> {Plain(DirAttr(h, l, n))}
      [] q.op = "Read"    ->
            {Out(FileRead(h, l, n, q.off, q.size),
                 FileRead(h, l, n, q.off, q.size).data, NIL,
                 [kept |-> TRUE, buf |-> <<>>])}
      [] q.op = "Write"   ->
            {Out(FileWrite(h, l, n, q.off, q.data, c[1], c[2], 0), <<>>, n,
                 writeLeaves(h[n].content, q.off, q.data, c[1])) :
                c \in WriteCaps(h[n].content, q.off, q.data)}
      [] q.op = "Setattr" /\ IsDir(h, n) ->
            {Plain(DirSetattr(h, l, n, q.valid, h[n].attr.Mode, 0))}
      [] q.op = "Setattr" /\ IsFile(h, n) ->
            {Out(FileSetattr(h, l, n, q.valid, q.size, h[n].attr.Mode, 0, c),
                 <<>>, IF "Size" \in q.valid /\ q.valid \subseteq FileHandled \cup FileIgnored
                       THEN n ELSE NIL,
                 resizeLeaves(h[n].content, q.size)) :
                c \in GrowCaps(h[n].content, Zeros(q.size - h[n].content.len))}

\* Nodes that requests under way may still allocate.
Pending == Cardinality({c \in Procs : call[c].op \in Allocates})

\* The adapter invokes a handler on a goroutine.
Invoke(c) ==
    /\ alive /\ pc[c] = "idle"
    /\ \E q \in ConcCalls :
          /\ q.op \in Allocates => Len(heap) + Pending < MaxNodes
          /\ call' = [call EXCEPT ![c] = q]
    /\ pc' = [pc EXCEPT ![c] = "called"]
    /\ UNCHANGED <<heap, lastInode, alive, mutex, resp>>

\* mutex.RLock(): waits while a writer holds the mutex.
RLock(c) ==
    /\ alive /\ pc[c] = "called" /\ call[c].op \in Readers
    /\ mutex.w = 0
    /\ mutex' = [mutex EXCEPT !.r = @ \cup {c}]
    /\ pc' = [pc EXCEPT ![c] = "in"]
    /\ UNCHANGED <<heap, lastInode, alive, call, resp>>

\* mutex.Lock(): waits while anyone holds the mutex.
Lock(c) ==
    /\ alive /\ pc[c] = "called" /\ call[c].op \in Writers
    /\ mutex = Unlocked
    /\ mutex' = [mutex EXCEPT !.w = c]
    /\ pc' = [pc EXCEPT ![c] = "in"]
    /\ UNCHANGED <<heap, lastInode, alive, call, resp>>

\* Readlink starts on its body at once.
Enter(c) ==
    /\ alive /\ pc[c] = "called" /\ call[c].op \in Lockless
    /\ pc' = [pc EXCEPT ![c] = "in"]
    /\ UNCHANGED <<heap, lastInode, alive, mutex, call, resp>>

\* defer mutex.Unlock() / mutex.RUnlock()
Released(c) == [w |-> IF mutex.w = c THEN 0 ELSE mutex.w, r |-> mutex.r \ {c}]

\* The ReadResponses not yet sent, after a handler wrote File o.f: a slice of
\* the array that the content has left keeps that array as it was left.
Aliases(o) ==
    [x \in Procs |->
        IF resp[x].live /\ resp[x].f = o.f /\ ~o.arr.kept
        THEN [resp[x] EXCEPT !.live = FALSE, !.buf = o.arr.buf]
        ELSE resp[x]]

\* The body of the handler and its return.  log.Fatal ends the process where
\* it stands: nothing is released and nothing returns.
Return(c) ==
    /\ alive /\ pc[c] = "in"
    /\ \E o \in Outcomes(call[c]) :
          /\ heap' = o.heap /\ lastInode' = o.last /\ alive' = o.alive
          /\ IF ~o.alive
             THEN UNCHANGED calls
             ELSE /\ mutex' = Released(c)
                  /\ call' = [call EXCEPT ![c] = NoCall]
                  /\ IF call[c].op = "Read" /\ o.err = OK
                     THEN /\ pc' = [pc EXCEPT ![c] = "reply"]
                          /\ resp' = [Aliases(o) EXCEPT ![c] =
                                [f |-> call[c].node, off |-> call[c].off,
                                 size |-> call[c].size, live |-> TRUE,
                                 buf |-> <<>>, snap |-> o.data]]
                     ELSE /\ pc' = [pc EXCEPT ![c] = "idle"]
                          /\ resp' = Aliases(o)

\* The bytes resp.Data of caller c holds now.
Payload(c) ==
    LET r == resp[c] IN
    SubSeq(IF r.live THEN heap[r.f].content.buf ELSE r.buf,
           r.off + 1, r.off + r.size)

\* The adapter sends the ReadResponse: it reads resp.Data after Read has
\* returned and released the mutex.
Respond(c) ==
    /\ alive /\ pc[c] = "reply"
    /\ pc' = [pc EXCEPT ![c] = "idle"]
    /\ resp' = [resp EXCEPT ![c] = NoData]
    /\ UNCHANGED <<heap, lastInode, alive, mutex, call>>

NextConc ==
    \E c \in Procs :
        \/ Invoke(c) \/ RLock(c) \/ Lock(c) \/ Enter(c) \/ Return(c)
        \/ Respond(c)

SpecConc == Init /\ [][NextConc]_vars

\* Goroutines that can run do run, and the RWMutex lets no caller starve:
\* one that is blocked in Lock or RLock gets the mutex if it is free again
\* and again.
Fairness ==
    \A c \in Procs :
        /\ WF_vars(Enter(c)) /\ WF_vars(Return(c)) /\ WF_vars(Respond(c))
        /\ SF_vars(RLock(c)) /\ SF_vars(Lock(c))

SpecConcFair == SpecConc /\ Fairness

\* ================================================================ claims
\* Error kinds of the specification that no handler of the source returns.
NotEmpty     == "ENOTEMPTY"
InvalidRange == "ERANGE"
Min(a, b) == IF a < b THEN a ELSE b
Max(a, b) == IF a > b THEN a ELSE b
Inode(h, p) == h[p].attr.Inode
\* The directory entries of heap h that reference node p.
Refs(h, p) ==
    {e \in PtrsOf(h) \X Names :
        IsDir(h, e[1]) /\ e[2] \in DOMAIN h[e[1]].children
                       /\ h[e[1]].children[e[2]] = p}

\* C1: no two nodes ever allocated, the root included, carry the same inode,
\* and a node allocated later carries a strictly greater inode than every
\* node allocated before it (pointers are in order of allocation).
InodesUniqueAndIncreasing ==
    /\ \A p \in Ptrs, q \in Ptrs : p < q => Inode(heap, p) < Inode(heap, q)
    /\ \A p \in Ptrs : Inode(heap, p) <= lastInode

\* Every kind of node has been created after the root.
AllNodesAllocated ==
    /\ Len(heap) = MaxNodes
    /\ Files # {} /\ \E d \in Dirs : d # root

\* C2 (as claimed): Mkdir or Create under a name already present fails with
\* AlreadyExists and leaves the entries of the directory as they were.
DuplicateRejected ==
    \A d \in Dirs, mode \in ReqModes, t \in Times :
        \A name \in DOMAIN heap[d].children :
            LET m == DirMkdir(heap, lastInode, d, name, mode, t, t)
                c == DirCreate(heap, lastInode, d, name, mode, t, t)
            IN  /\ m.err = EEXIST
                /\ m.heap[d].children = heap[d].children
                /\ c.err = EEXIST
                /\ c.heap[d].children = heap[d].children

\* C3 (as claimed): Remove of an entry that is a Directory with at least one
\* entry fails with the NotEmpty error and leaves the whole tree as it was.
NonEmptyDirRemoveFailsNotEmpty ==
    \A d \in Dirs, t \in Times :
        \A name \in DOMAIN heap[d].children :
            LET child == heap[d].children[name]
                r     == DirRemove(heap, lastInode, d, name, t)
            IN  (IsDir(heap, child) /\ DOMAIN heap[child].children # {})
                    => r.err = NotEmpty /\ r.heap = heap

\* The requests Rename(a, destDir, b) of this state whose entry a references
\* a node: <<d, a, destDir, b>>.
RenamesOfEntries ==
    {q \in Dirs \X Names \X Dirs \X Names :
        q[2] \in DOMAIN heap[q[1]].children /\ heap[q[1]].children[q[2]] # NIL}

\* C4 (as claimed): after Rename(a, destDir, b) of an existing entry a,
\* Lookup(a) in the source fails with NotFound and Lookup(b) in destDir
\* returns the node a referenced, with its inode.
RenameMovesEntryAlways ==
    \A q \in RenamesOfEntries, t1 \in Times, t2 \in Times :
        LET node == heap[q[1]].children[q[2]]
            r    == DirRename(heap, lastInode, q[1], q[2], q[3], q[4], t1, t2)
            la   == DirLookup(r.heap, r.last, q[1], q[2])
            lb   == DirLookup(r.heap, r.last, q[3], q[4])
        IN  /\ r.err = OK
            /\ la.err = ENOENT
            /\ lb.err = OK /\ lb.node = node
            /\ Inode(r.heap, lb.node) = Inode(heap, node)

\* C4 (amended): Lookup(b) in destDir returns the node a referenced, with its
\* inode, and Lookup(a) in the source fails with NotFound unless destDir is
\* the source and b = a, where the entry is still there.  Rename is one step,
\* so the node is never seen under both names or under neither.
RenameMovesEntry ==
    \A q \in RenamesOfEntries, t1 \in Times, t2 \in Times :
        LET node == heap[q[1]].children[q[2]]
            r    == DirRename(heap, lastInode, q[1], q[2], q[3], q[4], t1, t2)
            la   == DirLookup(r.heap, r.last, q[1], q[2])
            lb   == DirLookup(r.heap, r.last, q[3], q[4])
        IN  /\ r.err = OK
            /\ lb.err = OK /\ lb.node = node
            /\ Inode(r.heap, lb.node) = Inode(heap, node)
            /\ IF q[1] = q[3] /\ q[2] = q[4]
               THEN la = lb
               ELSE la.err = ENOENT /\ la.node = NIL

\* An entry can be renamed into another directory, and one has been: a
\* Directory or Symlink created first sits in a directory created after it.
RenameAcrossDirs ==
    /\ \E q \in RenamesOfEntries : q[1] # q[3]
    /\ \E d \in Dirs, x \in Names :
          /\ x \in DOMAIN heap[d].children /\ heap[d].children[x] # NIL
          /\ heap[d].children[x] < d /\ ~IsFile(heap, heap[d].children[x])

\* C5 (as claimed): Rename of a name without an entry fails with NotFound and
\* leaves source and destination as they were.
RenameMissingFails ==
    \A d \in Dirs, a \in Names, dest \in Dirs, b \in Names, t \in Times :
        a \notin DOMAIN heap[d].children =>
            LET r == DirRename(heap, lastInode, d, a, dest, b, t, t) IN
            /\ r.err = ENOENT
            /\ r.heap[d] = heap[d]
            /\ r.heap[dest] = heap[dest]

\* The Write requests of this state that the bounds admit:
\* <<f, off, data, <<c1, c2>>>>.
WriteRequests ==
    {w \in Files \X Offsets \X Datas \X ((0 .. MaxCap) \X (0 .. MaxCap)) :
        /\ w[2] + Len(w[3]) <= MaxCap
        /\ w[4] \in WriteCaps(heap[w[1]].content, w[2], w[3])}

\* C6: Write(offset, data) on content c yields content of length
\* max(len(c), offset+len(data)) whose bytes in [len(c), offset) are zero,
\* whose bytes in [offset, offset+len(data)) are data and whose other bytes
\* are those of c; it reports len(data) bytes written.
WriteOverlays ==
    \A w \in WriteRequests, t \in Times :
        LET f    == w[1]
            off  == w[2]
            data == w[3]
            c    == Bytes(heap[f].content)
            r    == FileWrite(heap, lastInode, f, off, data, w[4][1], w[4][2], t)
            c2   == Bytes(r.heap[f].content)
        IN  /\ r.err = OK /\ r.size = Len(data)
            /\ Len(c2) = Max(Len(c), off + Len(data))
            /\ Len(c2) >= Len(c)
            /\ \A i \in 1 .. Len(c2) :
                  c2[i] = IF i > off /\ i <= off + Len(data) THEN data[i - off]
                          ELSE IF i <= Len(c) THEN c[i]
                          ELSE 0

\* A File that was written and then truncated keeps a byte of the old
\* content in its array past its length, and a Write that starts past the
\* length and carries data can be served there.
SparseWriteDone ==
    \E w \in WriteRequests :
        LET s == heap[w[1]].content IN
        /\ w[2] > s.len /\ Len(w[3]) > 0
        /\ s.len < Cap(s) /\ s.buf[s.len + 1] # 0

\* C7 (as claimed): Read(offset, size) never faults; it fails with
\* InvalidRange when offset is past the length and otherwise returns the
\* bytes of the content in [offset, min(offset+size, length)).
ReadIsBounded ==
    \A f \in Files, off \in Offsets, size \in Offsets :
        LET c == Bytes(heap[f].content)
            r == FileRead(heap, lastInode, f, off, size)
        IN  IF off > Len(c)
            THEN r.err = InvalidRange
            ELSE r.err = OK /\ r.data = SubSeq(c, off + 1, Min(off + size, Len(c)))

\* The Setattr requests on files of this state that set the size and are
\* served: <<f, valid, size, c>>.
ResizeRequests ==
    {q \in Files \X ReqValid \X (0 .. MaxCap) \X (0 .. MaxCap) :
        /\ "Size" \in q[2]
        /\ q[2] \subseteq FileHandled \cup FileIgnored
        /\ q[4] \in GrowCaps(heap[q[1]].content,
                             Zeros(q[3] - heap[q[1]].content.len))}

\* C8: Setattr with size n on content c leaves the first n bytes of c when
\* n < len(c), c followed by n-len(c) zero bytes when n > len(c), and c when
\* n = len(c); Attr then reports size n.
SetattrResizes ==
    \A q \in ResizeRequests, mode \in FileSetModes, t \in Times :
        LET f  == q[1]
            n  == q[3]
            c  == Bytes(heap[f].content)
            r  == FileSetattr(heap, lastInode, f, q[2], n, mode, t, q[4])
            c2 == Bytes(r.heap[f].content)
        IN  /\ r.err = OK /\ r.alive
            /\ c2 = IF n < Len(c) THEN SubSeq(c, 1, n) ELSE c \o Zeros(n - Len(c))
            /\ (n = Len(c) => r.heap[f].content = heap[f].content)
            /\ FileAttr(r.heap, r.last, f).a.Size = n

\* A file has been truncated (its array keeps a byte of the old content past
\* its length) and can be extended again.
TruncatedFile ==
    \E q \in ResizeRequests :
        LET s == heap[q[1]].content IN
        s.len < Cap(s) /\ s.buf[s.len + 1] # 0 /\ q[3] > s.len

\* What Read and Attr show of file f in heap h.
Seen(h, f) ==
    [data  |-> FileRead(h, 0, f, 0, h[f].content.len).data,
     err   |-> FileRead(h, 0, f, 0, h[f].content.len).err,
     inode |-> FileAttr(h, 0, f).a.Inode,
     size  |-> FileAttr(h, 0, f).a.Size]

\* The entries of heap h that reference a File: <<d, name>>.
FileEntries(h) ==
    {e \in PtrsOf(h) \X Names :
        IsDir(h, e[1]) /\ e[2] \in DOMAIN h[e[1]].children
                       /\ IsFile(h, h[e[1]].children[e[2]])}

\* C9: Link(b, fileA) makes b reference the node of fileA itself, and two
\* entries that reference a File with the same inode show the same content
\* and size after any Write or Setattr made through either of them.
LinkAliases ==
    /\ \A d \in Dirs, b \in Names, old \in Files, t \in Times :
          LET r == DirLink(heap, lastInode, d, b, old, t)
              l == DirLookup(r.heap, r.last, d, b)
          IN  /\ r.err = OK /\ l.err = OK
              /\ l.node = old /\ r.node = old
              /\ Inode(r.heap, l.node) = Inode(heap, old)
              /\ Len(r.heap) = Len(heap)
    /\ \A e1 \in FileEntries(heap), e2 \in FileEntries(heap) :
          LET p == heap[e1[1]].children[e1[2]]
              q == heap[e2[1]].children[e2[2]]
          IN  Inode(heap, p) = Inode(heap, q) =>
                /\ Seen(heap, p) = Seen(heap, q)
                /\ \A w \in WriteRequests : w[1] = p =>
                      LET h2 == FileWrite(heap, lastInode, p, w[2], w[3],
                                          w[4][1], w[4][2], 0).heap
                      IN  /\ Seen(h2, q) = Seen(h2, p)
                          /\ Seen(h2, q).size = Max(Seen(heap, q).size,
                                                    w[2] + Len(w[3]))
                /\ \A z \in ResizeRequests : z[1] = p =>
                      LET h2 == FileSetattr(heap, lastInode, p, z[2], z[3],
                                            {"r", "w"}, 0, z[4]).heap
                      IN  /\ Seen(h2, q) = Seen(h2, p)
                          /\ Seen(h2, q).size = z[3]

\* One File is referenced from two directories and has been written.
LinkedAcrossDirs ==
    \E e1 \in FileEntries(heap), e2 \in FileEntries(heap) :
        /\ e1[1] # e2[1]
        /\ heap[e1[1]].children[e1[2]] = heap[e2[1]].children[e2[2]]
        /\ heap[heap[e1[1]].children[e1[2]]].content.len > 0

\* The Files of h2 seen through the entries of h other than those in named
\* are the Files they were in h, with the content and inode they had.
OthersKeep(h, h2, named) ==
    \A e \in FileEntries(h) \ named :
        LET f == h[e[1]].children[e[2]] IN
        /\ e[2] \in DOMAIN h2[e[1]].children
        /\ h2[e[1]].children[e[2]] = f
        /\ h2[f].content = h[f].content
        /\ Inode(h2, f) = Inode(h, f)

\* C10: removing or renaming an entry changes neither the content nor the
\* inode seen through any other entry that references a File, and a File
\* loses the entries that reference it only one at a time, by a request
\* that removes or overwrites that very entry.
LinkedFileSurvives ==
    /\ \A d \in Dirs, name \in Names, t \in Times :
          OthersKeep(heap, DirRemove(heap, lastInode, d, name, t).heap,
                     {<<d, name>>})
    /\ \A d \in Dirs, a \in Names, dest \in Ptrs, b \in Names, t \in Times :
          OthersKeep(heap, DirRename(heap, lastInode, d, a, dest, b, t, t).heap,
                     {<<d, a>>, <<dest, b>>})
    /\ \A d \in Dirs, name \in Names, t \in Times :
          /\ OthersKeep(heap, DirCreate(heap, lastInode, d, name, {"r", "w"}, t, t).heap,
                        {<<d, name>>})
          /\ OthersKeep(heap, DirSymlink(heap, lastInode, d, name, "t", t, t).heap,
                        {<<d, name>>})
          /\ OthersKeep(heap, DirMkdir(heap, lastInode, d, name, {"r", "w"}, t, t).heap,
                        {<<d, name>>})
          /\ \A old \in Ptrs :
                OthersKeep(heap, DirLink(heap, lastInode, d, name, old, t).heap,
                           {<<d, name>>})
    /\ \A f \in Files, d \in Dirs, a \in Names, dest \in Ptrs, b \in Names :
          Cardinality(Refs(heap, f)) >= 2 =>
             /\ Refs(DirRemove(heap, lastInode, d, a, 0).heap, f) # {}
             /\ Refs(DirRename(heap, lastInode, d, a, dest, b, 0, 0).heap, f) # {}

\* A written File is referenced by two entries, one of which can be removed.
FileWithTwoLinks ==
    \E f \in Files :
        /\ Cardinality(Refs(heap, f)) >= 2
        /\ heap[f].content.len > 0

InvalidTarget        == "EINVALIDTARGET"
UnsupportedAttribute == "ENOTSUP"

\* C11 (as claimed): Link whose target is a Directory or a Symlink fails with
\* InvalidTarget and leaves the directory as it was; Link whose target is a
\* File succeeds.
LinkRejectsNonFile ==
    \A d \in Dirs, b \in Names, old \in Ptrs, t \in Times :
        LET r == DirLink(heap, lastInode, d, b, old, t) IN
        IF IsFile(heap, old)
        THEN r.err = OK
        ELSE r.err = InvalidTarget /\ r.heap[d] = heap[d]

\* C12 (as claimed): Remove of a name without an entry fails with NotFound
\* and leaves the directory, its modification time included, as it was.
RemoveMissingFails ==
    \A d \in Dirs, name \in Names, t \in Times :
        name \notin DOMAIN heap[d].children =>
            LET r == DirRemove(heap, lastInode, d, name, t) IN
            r.err = ENOENT /\ r.heap[d] = heap[d]

\* In heap h2 every entry of this state that references a node, those in
\* named aside, still references that node, and the node has its inode.
EntriesKept(named, h2) ==
    \A d \in Dirs :
        \A name \in DOMAIN heap[d].children :
            LET p == heap[d].children[name]
                l == DirLookup(h2, lastInode, d, name)
            IN  (p # NIL /\ <<d, name>> \notin named) =>
                   l.err = OK /\ l.node = p /\ Inode(h2, p) = Inode(heap, p)

\* C13: after Mkdir(name) or Create(name) succeeds in a directory,
\* Lookup(name) there returns the node the call returned, with its inode;
\* an entry keeps referencing its node, and the node its inode, across every
\* request that does not remove, rename away or overwrite that entry; and
\* Lookup of a name without an entry fails with NotFound.
CreatedIsLookedUp ==
    /\ \A d \in Dirs, name \in Names, mode \in ReqModes, t \in Times :
          LET m  == DirMkdir(heap, lastInode, d, name, mode, t, t)
              c  == DirCreate(heap, lastInode, d, name, mode, t, t)
              lm == DirLookup(m.heap, m.last, d, name)
              lc == DirLookup(c.heap, c.last, d, name)
          IN  /\ m.err = OK =>
                    /\ lm.err = OK /\ lm.node = m.node /\ IsDir(m.heap, lm.node)
                    /\ DirAttr(m.heap, m.last, lm.node).a.Inode = m.last
                    /\ m.last > lastInode
              /\ c.err = OK =>
                    /\ lc.err = OK /\ lc.node = c.node /\ IsFile(c.heap, lc.node)
                    /\ FileAttr(c.heap, c.last, lc.node).a.Inode = c.last
                    /\ c.last > lastInode
              /\ (name \notin DOMAIN heap[d].children) => m.err = OK
    /\ \A d \in Dirs, name \in Names :
          LET h == heap  l == lastInode  e == {<<d, name>>} IN
          /\ EntriesKept({}, DirMkdir(h, l, d, name, {"r", "w"}, 0, 0).heap)
          /\ EntriesKept(e, DirCreate(h, l, d, name, {"r", "w"}, 0, 0).heap)
          /\ EntriesKept(e, DirSymlink(h, l, d, name, "t", 0, 0).heap)
          /\ \A old \in Ptrs :
                EntriesKept(IF IsFile(h, old) THEN e ELSE {},
                            DirLink(h, l, d, name, old, 0).heap)
          /\ EntriesKept(IF DirRemove(h, l, d, name, 0).err = OK THEN e ELSE {},
                         DirRemove(h, l, d, name, 0).heap)
          /\ \A dest \in Ptrs, b \in Names :
                EntriesKept(IF IsDir(h, dest) THEN e \cup {<<dest, b>>} ELSE {},
                            DirRename(h, l, d, name, dest, b, 0, 0).heap)
          /\ EntriesKept({}, DirLookup(h, l, d, name).heap)
    /\ \A d \in Dirs, v \in ReqValid, m \in DirSetModes :
          EntriesKept({}, DirSetattr(heap, lastInode, d, v, m, MaxTime).heap)
    /\ \A d \in Dirs : EntriesKept({}, DirReadDirAll(heap, lastInode, d).heap)
    /\ \A w \in WriteRequests :
          EntriesKept({}, FileWrite(heap, lastInode, w[1], w[2], w[3],
                                    w[4][1], w[4][2], 0).heap)
    /\ \A f \in Files, v \in ReqValid :
          /\ EntriesKept({}, FileSetattr(heap, lastInode, f, v, 0, {"r", "w"}, 0,
                                         Cap(heap[f].content)).heap)
          /\ EntriesKept({}, FileRead(heap, lastInode, f, 0, 0).heap)
    /\ \A s \in Symlinks :
          EntriesKept({}, SymlinkReadlink(heap, lastInode, s).heap)
    /\ \A d \in Dirs, name \in Names :
          name \notin DOMAIN heap[d].children =>
             LET l == DirLookup(heap, lastInode, d, name) IN
             l.err = ENOENT /\ l.node = NIL

\* The root holds a Directory made by Mkdir and a File made by Create, and
\* that Directory has no entry under some name.
MadeDirAndFile ==
    \E x \in DOMAIN heap[root].children, y \in DOMAIN heap[root].children :
        /\ IsDir(heap, heap[root].children[x])
        /\ IsFile(heap, heap[root].children[y])
        /\ \E n \in Names : n \notin DOMAIN heap[heap[root].children[x]].children

\* C14 (as claimed): a Setattr on a Directory or a File that asks for a field
\* outside the recognized set returns UnsupportedAttribute, leaves the node
\* as it was and leaves the process running.
SetattrUnsupportedReturns ==
    /\ \A d \in Dirs, valid \in ReqValid, mode \in DirSetModes, t \in Times :
          valid \ (DirHandled \cup DirIgnored) # {} =>
             LET r == DirSetattr(heap, lastInode, d, valid, mode, t) IN
             r.err = UnsupportedAttribute /\ r.heap = heap /\ r.alive
    /\ \A f \in Files, valid \in ReqValid, mode \in FileSetModes, t \in Times :
          valid \ (FileHandled \cup FileIgnored) # {} =>
             LET r == FileSetattr(heap, lastInode, f, valid, 0, mode, t,
                                  Cap(heap[f].content))
             IN  r.err = UnsupportedAttribute /\ r.heap = heap /\ r.alive
    /\ alive

\* C15 (as claimed): every operation is atomic to observers.  The bytes a
\* Read hands to its caller stay the bytes the content had when Read ran:
\* no Write or Setattr that runs while the reply is still to be sent changes
\* them; and while a Lookup or ReadDirAll is in its body no handler that
\* inserts or moves entries is in its own.
OperationsAtomic ==
    /\ \A c \in Procs : pc[c] = "reply" => Payload(c) = resp[c].snap
    /\ \A c \in Procs, x \in Procs :
          (/\ pc[c] = "in" /\ call[c].op \in {"Lookup", "ReadDirAll"}
           /\ x # c /\ pc[x] = "in") => call[x].op \notin Writers

\* Caller c holds the mutex, shared or exclusive.
Holds(c) == mutex.w = c \/ c \in mutex.r

\* C16 (as claimed): every invoked operation eventually returns and has
\* released the mutex; a caller that has returned holds nothing.
CallsReturn ==
    /\ [](\A c \in Procs : pc[c] \in {"idle", "reply"} => ~Holds(c))
    /\ \A c \in Procs : (pc[c] = "called") ~> (pc[c] = "idle" /\ ~Holds(c))

\* C17 (as claimed): a handler in its body holds the mutex, shared for attr,
\* lookup, list, read and readlink, exclusive for the mutating handlers, and
\* while a mutating handler is in its body no other handler is in its own.
OperationsRunUnderGuard ==
    \A c \in Procs :
        pc[c] = "in" =>
            /\ call[c].op \in Readers \cup Lockless => c \in mutex.r
            /\ call[c].op \in Writers =>
                  /\ mutex.w = c
                  /\ \A x \in Procs \ {c} : pc[x] # "in"

\* C18: in every reachable state a Directory or Symlink node is referenced
\* by at most one directory entry, and the root by none; a File may be
\* referenced by more.
DirsAndSymlinksSingleRef ==
    /\ \A p \in Ptrs : ~IsFile(heap, p) => Cardinality(Refs(heap, p)) <= 1
    /\ Refs(heap, root) = {}

\* A Directory or Symlink that Rename has moved into a directory made after
\* it is referenced by that one entry, and Link is asked to add another.
MovedNodeHasOneRef ==
    \E p \in Ptrs \ Files, d \in Dirs, x \in Names :
        /\ d > p /\ Refs(heap, p) = {<<d, x>>}
        /\ \E y \in Names \ {x} : DirLink(heap, lastInode, d, y, p, 0).err = OK

\* The requests Rename(a, destDir, b) of this state that move a node onto a
\* name present in the destination: <<d, a, destDir, b>>.
RenamesOnto ==
    {q \in RenamesOfEntries : q[4] \in DOMAIN heap[q[3]].children}

\* C19 (as claimed): Rename onto a name present in the destination succeeds
\* whatever the types; then the name references the moved node and not the
\* replaced one, and every other entry of the destination is as it was; with
\* the destination the source and the new name the old one, the entries are
\* as they were.
RenameOverwritesAlways ==
    \A q \in RenamesOnto, t1 \in Times, t2 \in Times :
        LET d == q[1]  a == q[2]  dest == q[3]  b == q[4]
            node     == heap[d].children[a]
            replaced == heap[dest].children[b]
            r        == DirRename(heap, lastInode, d, a, dest, b, t1, t2)
        IN  /\ r.err = OK
            /\ IF d = dest /\ a = b
               THEN r.heap[d].children = heap[d].children
               ELSE /\ MapGet(r.heap[dest].children, b) = node
                    /\ MapGet(r.heap[dest].children, b) # replaced
                    /\ \A n \in Names \ {b} :
                          /\ n \in DOMAIN r.heap[dest].children
                                <=> n \in DOMAIN heap[dest].children
                          /\ MapGet(r.heap[dest].children, n)
                                = MapGet(heap[dest].children, n)

\* C19 (amended): as above, but the name still references the replaced node
\* when that is the moved node itself (two entries of one File), and when
\* the destination is the source the entry of the old name is gone.
RenameOverwrites ==
    \A q \in RenamesOnto, t1 \in Times, t2 \in Times :
        LET d == q[1]  a == q[2]  dest == q[3]  b == q[4]
            node     == heap[d].children[a]
            replaced == heap[dest].children[b]
            r        == DirRename(heap, lastInode, d, a, dest, b, t1, t2)
        IN  /\ r.err = OK
            /\ IF d = dest /\ a = b
               THEN r.heap[d].children = heap[d].children
               ELSE /\ MapGet(r.heap[dest].children, b) = node
                    /\ replaced # node =>
                          <<dest, b>> \notin Refs(r.heap, replaced)
                    /\ \A n \in Names \ {b} :
                          IF d = dest /\ n = a
                          THEN n \notin DOMAIN r.heap[dest].children
                          ELSE /\ n \in DOMAIN r.heap[dest].children
                                     <=> n \in DOMAIN heap[dest].children
                               /\ MapGet(r.heap[dest].children, n)
                                     = MapGet(heap[dest].children, n)

\* A node can be renamed from another directory onto a name that holds a
\* node of another type.
RenameOntoOtherType ==
    \E q \in RenamesOnto :
        LET replaced == heap[q[3]].children[q[4]] IN
        /\ q[1] # q[3] /\ replaced # NIL
        /\ heap[replaced].kind # heap[heap[q[1]].children[q[2]]].kind

\* The nodes the entries of directory p reference.
Children(h, p) ==
    IF IsDir(h, p)
    THEN {h[p].children[n] : n \in DOMAIN h[p].children} \ {NIL}
    ELSE {}

\* The nodes reached from the nodes S by at most k further Lookups.
RECURSIVE Reach(_, _, _)
Reach(h, S, k) ==
    IF k = 0 THEN S
    ELSE Reach(h, S \cup UNION {Children(h, p) : p \in S}, k - 1)

\* The nodes below p: reached from p by one Lookup or more.
Below(h, p) == Reach(h, Children(h, p), Len(h))

\* C20 (as claimed): no Directory is contained in itself or in one of its
\* descendants, and every Directory that an entry references is reached
\* from the root by repeated Lookup.
EntriesFormTree ==
    /\ \A d \in Dirs : d \notin Below(heap, d)
    /\ \A d \in Dirs : Refs(heap, d) # {} => d \in Below(heap, root)
====
